---- MODULE Spec2Model ----
(***************************************************************************)
(* A model of table_extractor_gui.py: the table loader, the header         *)
(* normalizer, the column resolver, the projector and the window's         *)
(* handlers (on_browse, on_load, on_extract, on_save_browse, on_export).   *)
(*                                                                         *)
(* A Python str is a sequence of one-character strings, so that strip,     *)
(* lower, substring search, formatting and the address pattern are         *)
(* computed character by character.  A DataFrame is a record               *)
(* [columns, rows]; a Python dict is a sequence of [key, val] entries in   *)
(* insertion order.                                                        *)
(***************************************************************************)
EXTENDS Integers, Sequences, FiniteSets, TLC

VARIABLES
    HAS_PDFPLUMBER, \* module flag set at import (lines 13-17)
    path_edit,      \* text of the input path field
    save_edit,      \* text of the output path field
    all_tables,     \* self.all_tables
    loaded_path,    \* self.loaded_path
    items,          \* the column names offered by the combos and the list
    cmb_city,       \* current text of each combo
    cmb_region,
    cmb_state,
    lst_selected,   \* the selected entries of lst_other
    extracted_df,   \* self.extracted_df: <<>> is None, <<df>> a frame
    preview,        \* the preview table widget's header and cell texts
    last,           \* what the last handler did (its messages, I/O, outputs)
    call            \* a direct call of one core function: arguments and result

vars == <<HAS_PDFPLUMBER, path_edit, save_edit, all_tables, loaded_path,
          items, cmb_city, cmb_region, cmb_state, lst_selected, extracted_df,
          preview, last, call>>

\* ------------------------------------------------------------------
\* Python values
\* ------------------------------------------------------------------

\* None, told apart from every str (whose elements are single characters).
None == <<"None">>

Range(s) == {s[i] : i \in 1..Len(s)}

Max(S) == CHOOSE m \in S : \A x \in S : x <= m

\* Truth value of an Optional[str]: None and "" are false.
Truthy(x) == x # None /\ x # <<>>

UPPER == <<"A", "B", "C", "D", "E", "F", "G", "H", "I", "J", "K", "L", "M", "N", "O", "P", "Q", "R", "S", "T", "U", "V", "W", "X", "Y", "Z">>

LOWER == <<"a", "b", "c", "d", "e", "f", "g", "h", "i", "j", "k", "l", "m", "n", "o", "p", "q", "r", "s", "t", "u", "v", "w", "x", "y", "z">>

WHITESPACE == {" ", "\t", "\n", "\r"}

IsAlpha(c) == c \in Range(UPPER) \cup Range(LOWER)

LowerChar(c) ==
    IF c \in Range(UPPER) THEN LOWER[CHOOSE i \in 1..Len(UPPER) : UPPER[i] = c] ELSE c

UpperChar(c) ==
    IF c \in Range(LOWER) THEN UPPER[CHOOSE i \in 1..Len(LOWER) : LOWER[i] = c] ELSE c

\* str.lower()
lower(s) == [i \in 1..Len(s) |-> LowerChar(s[i])]

\* str.upper()
upper(s) == [i \in 1..Len(s) |-> UpperChar(s[i])]

\* str.strip()
strip(s) ==
    LET keep == {i \in 1..Len(s) : s[i] \notin WHITESPACE}
    IN  IF keep = {} THEN <<>>
        ELSE SubSeq(s, CHOOSE a \in keep : \A b \in keep : a <= b, Max(keep))

\* `sub in s` for two str
Contains(s, sub) ==
    \E i \in 1..(Len(s) - Len(sub) + 1) : SubSeq(s, i, i + Len(sub) - 1) = sub

\* str(n) for an int n >= 0
RECURSIVE IntStr(_)
IntStr(n) ==
    IF n < 10 THEN <<<<"0", "1", "2", "3", "4", "5", "6", "7", "8", "9">>[n + 1]>>
    ELSE IntStr(n \div 10) \o <<<<"0", "1", "2", "3", "4", "5", "6", "7", "8", "9">>[(n % 10) + 1]>>

\* Code point order of the characters the model uses (ASCII).
ASCII == <<"\t", "\n", "\r", " ", ",", ".", "/">> \o <<"0", "1", "2", "3", "4", "5", "6", "7", "8", "9">> \o UPPER
         \o <<"_">> \o LOWER

Ord(c) == CHOOSE i \in 1..Len(ASCII) : ASCII[i] = c

\* a < b for two str
RECURSIVE StrLess(_, _)
StrLess(a, b) ==
    IF b = <<>> THEN FALSE
    ELSE IF a = <<>> THEN TRUE
    ELSE IF a[1] # b[1] THEN Ord(a[1]) < Ord(b[1])
    ELSE StrLess(Tail(a), Tail(b))

\* sorted(xs) for a list of pairwise distinct str
RECURSIVE sorted(_)
sorted(xs) ==
    IF xs = <<>> THEN <<>>
    ELSE LET m == CHOOSE i \in 1..Len(xs) : \A j \in 1..Len(xs) : j = i \/ StrLess(xs[i], xs[j])
         IN  <<xs[m]>> \o sorted(SubSeq(xs, 1, m - 1) \o SubSeq(xs, m + 1, Len(xs)))

\* list(dict.fromkeys(xs)): the first occurrences, in order
RECURSIVE fromkeys(_)
fromkeys(xs) ==
    IF xs = <<>> THEN <<>>
    ELSE LET r == fromkeys(SubSeq(xs, 1, Len(xs) - 1))
             x == xs[Len(xs)]
         IN  IF x \in Range(r) THEN r ELSE Append(r, x)

\* ---- dict: entries [key, val] in insertion order ----

HasKey(d, k) == \E i \in 1..Len(d) : d[i].key = k

\* d[k], d.get(k)
Get(d, k) == d[CHOOSE i \in 1..Len(d) : d[i].key = k].val

\* d[k] = v: an existing key keeps its place and takes the new value
DictSet(d, k, v) ==
    IF HasKey(d, k)
    THEN [i \in 1..Len(d) |-> IF d[i].key = k THEN [key |-> k, val |-> v] ELSE d[i]]
    ELSE Append(d, [key |-> k, val |-> v])

\* ---- DataFrame ----

\* pd.DataFrame(data_rows, columns=cols): short rows are padded with None
DataFrame(data_rows, cols) ==
    [columns |-> cols,
     rows |-> [r \in 1..Len(data_rows) |->
                 [c \in 1..Len(cols) |->
                    IF c <= Len(data_rows[r]) THEN data_rows[r][c] ELSE None]]]

\* df[col]: the cells of the column of that name
Column(df, col) ==
    LET c == CHOOSE i \in 1..Len(df.columns) : df.columns[i] = col
    IN  [r \in 1..Len(df.rows) |-> df.rows[r][c]]

\* df[name] = vals: a new column is appended, an existing one replaced
SetColumn(df, name, vals) ==
    IF name \in Range(df.columns)
    THEN LET c == CHOOSE i \in 1..Len(df.columns) : df.columns[i] = name
         IN  [df EXCEPT !.rows = [r \in 1..Len(df.rows) |->
                                    [df.rows[r] EXCEPT ![c] = vals[r]]]]
    ELSE [columns |-> Append(df.columns, name),
          rows |-> [r \in 1..Len(df.rows) |-> Append(df.rows[r], vals[r])]]

\* ------------------------------------------------------------------
\* Synonym lists (lines 30-36, 145-147)
\* ------------------------------------------------------------------

READABLE_EXTS == {<<".", "c", "s", "v">>, <<".", "x", "l", "s", "x">>, <<".", "x", "l", "s">>, <<".", "h", "t", "m", "l">>, <<".", "h", "t", "m">>, <<".", "p", "d", "f">>}

CITY_SYNS == <<<<"c", "i", "t", "y">>, <<"t", "o", "w", "n">>, <<"m", "u", "n", "i", "c", "i", "p", "a", "l", "i", "t", "y">>, <<"l", "o", "c", "a", "l", "i", "t", "y">>, <<"s", "u", "b", "u", "r", "b">>>>

REGION_SYNS == <<<<"r", "e", "g", "i", "o", "n">>, <<"p", "r", "o", "v", "i", "n", "c", "e">>, <<"c", "o", "u", "n", "t", "y">>, <<"p", "r", "e", "f", "e", "c", "t", "u", "r", "e">>, <<"d", "i", "s", "t", "r", "i", "c", "t">>, <<"z", "o", "n", "e">>>>

STATE_SYNS == <<<<"s", "t", "a", "t", "e">>, <<"s", "t", "a", "t", "e", "/", "p", "r", "o", "v", "i", "n", "c", "e">>, <<"s", "t", "a", "t", "e", "_", "p", "r", "o", "v", "i", "n", "c", "e">>, <<"s", "t">>, <<"s", "t", "a", "t", "e", "_", "c", "o", "d", "e">>,
                <<"s", "t", "a", "t", "e", "c", "o", "d", "e">>, <<"p", "r", "o", "v">>, <<"p", "r", "o", "v", "i", "n", "c", "e">>>>

ADDRESS_SYNS == <<<<"a", "d", "d", "r", "e", "s", "s">>, <<"f", "u", "l", "l", " ", "a", "d", "d", "r", "e", "s", "s">>, <<"a", "d", "d", "r">>, <<"l", "o", "c", "a", "t", "i", "o", "n">>, <<"s", "i", "t", "e">>>>

CITY_CANDS == CITY_SYNS

REGION_CANDS == REGION_SYNS

STATE_CANDS == STATE_SYNS

\* ------------------------------------------------------------------
\* Header normalizer
\* ------------------------------------------------------------------

\* clean_header: str(x).strip(), "" for None
clean_header(x) == IF x # None THEN strip(x) ELSE <<>>

\* The deduplication loop of normalize_header_len from index i on (i counts
\* from 1, so f"col_{i+1}" of the source is col_ followed by i).
RECURSIVE DedupFrom(_, _, _)
DedupFrom(new_header, i, seen) ==
    IF i > Len(new_header) THEN <<>>
    ELSE LET name == new_header[i]
             n == IF name # <<>> THEN name ELSE <<"c", "o", "l", "_">> \o IntStr(i)
         IN  IF HasKey(seen, n)
             THEN LET cnt == Get(seen, n) + 1
                  IN  <<n \o <<"_">> \o IntStr(cnt)>>
                      \o DedupFrom(new_header, i + 1, DictSet(seen, n, cnt))
             ELSE <<n>> \o DedupFrom(new_header, i + 1, DictSet(seen, n, 1))

normalize_header_len(header, data_rows) ==
    LET max_cols == Max({Len(header)} \cup {Len(data_rows[r]) : r \in 1..Len(data_rows)} \cup {1})
        new_header ==
            IF Len(header) < max_cols
            THEN header \o [k \in 1..(max_cols - Len(header)) |->
                              <<"c", "o", "l", "_">> \o IntStr(Len(header) + k)]
            ELSE IF Len(header) > max_cols THEN SubSeq(header, 1, max_cols)
            ELSE header
    IN  DedupFrom(new_header, 1, <<>>)

\* ------------------------------------------------------------------
\* Column resolver
\* ------------------------------------------------------------------

RECURSIVE NormalizeColsFrom(_, _)
NormalizeColsFrom(cols, mapping) ==
    IF cols = <<>> THEN mapping
    ELSE NormalizeColsFrom(Tail(cols), DictSet(mapping, lower(strip(Head(cols))), Head(cols)))

\* {lower_stripped_col: original_col}; a later column of the same key
\* overwrites the earlier one's value
normalize_cols(df) == NormalizeColsFrom(df.columns, <<>>)

find_col(df, candidates) ==
    LET cmap == normalize_cols(df)
        exact == {i \in 1..Len(candidates) : HasKey(cmap, lower(strip(candidates[i])))}
        loose == {j \in 1..Len(cmap) :
                    \E i \in 1..Len(candidates) : Contains(cmap[j].key, candidates[i])}
    IN  IF exact # {}
        THEN Get(cmap, lower(strip(candidates[CHOOSE i \in exact : \A k \in exact : i <= k])))
        ELSE IF loose # {}
        THEN cmap[CHOOSE j \in loose : \A k \in loose : j <= k].val
        ELSE None

\* The pattern of line 162 tried at start position s:
\*   (?P<city>[^,]+),\s*(?P<state>[A-Za-z]{2})(?:\s+\d{4,6})?
\* [^,]+ is greedy and must be followed by a comma, so only the whole run of
\* non-commas from s can match; \s* is greedy and must be followed by a
\* letter, so only the whole run of whitespace can match.  The optional zip
\* group decides neither whether there is a match nor the two named groups.
\* <<>> when there is no match at s, else <<[city, state]>>.
MatchAt(v, s) ==
    IF v[s] = "," THEN <<>>
    ELSE LET e == Max({j \in s..Len(v) : \A t \in s..j : v[t] # ","})
             p == e + 2
             q == CHOOSE j \in p..(Len(v) + 1) :
                     /\ j = Len(v) + 1 \/ v[j] \notin WHITESPACE
                     /\ \A t \in p..(j - 1) : v[t] \in WHITESPACE
         IN  IF /\ e + 1 <= Len(v)
                /\ v[e + 1] = ","
                /\ q + 1 <= Len(v)
                /\ IsAlpha(v[q])
                /\ IsAlpha(v[q + 1])
             THEN <<[city |-> SubSeq(v, s, e), state |-> SubSeq(v, q, q + 1)]>>
             ELSE <<>>

\* pattern.search(v): the match at the leftmost start position that has one
PatternSearch(v) ==
    LET starts == {s \in 1..Len(v) : MatchAt(v, s) # <<>>}
    IN  IF starts = {} THEN <<>>
        ELSE MatchAt(v, CHOOSE s \in starts : \A t \in starts : s <= t)

\* astype(str) of one cell
AsStr(v) == IF v = None THEN <<"N", "o", "n", "e">> ELSE v

ParsedCity(v) ==
    LET m == PatternSearch(AsStr(v))
    IN  IF m # <<>> THEN strip(m[1].city) ELSE <<>>

ParsedState(v) ==
    LET m == PatternSearch(AsStr(v))
    IN  IF m # <<>> THEN upper(m[1].state) ELSE <<>>

\* address_fallback: the returned triple and the frame as the call leaves it
address_fallback(df) ==
    LET addr_col == find_col(df, ADDRESS_SYNS)
    IN  IF ~Truthy(addr_col)
        THEN [city_col |-> None, state_col |-> None, region_col |-> None, df |-> df]
        ELSE LET cells == Column(df, addr_col)
                 city_vals == [r \in 1..Len(cells) |-> ParsedCity(cells[r])]
                 state_vals == [r \in 1..Len(cells) |-> ParsedState(cells[r])]
             IN  [city_col |-> <<"_", "_", "p", "a", "r", "s", "e", "d", "_", "c", "i", "t", "y">>,
                  state_col |-> <<"_", "_", "p", "a", "r", "s", "e", "d", "_", "s", "t", "a", "t", "e">>,
                  region_col |-> None,
                  df |-> SetColumn(SetColumn(df, <<"_", "_", "p", "a", "r", "s", "e", "d", "_", "c", "i", "t", "y">>, city_vals),
                                   <<"_", "_", "p", "a", "r", "s", "e", "d", "_", "s", "t", "a", "t", "e">>, state_vals)]

\* suggest_mappings: the returned mapping and the frame as the call leaves it
suggest_mappings(df) ==
    LET city == find_col(df, CITY_CANDS)
        region == find_col(df, REGION_CANDS)
        state == find_col(df, STATE_CANDS)
    IN  IF ~Truthy(city) \/ ~Truthy(state)
        THEN LET fb == address_fallback(df)
             IN  [City |-> IF Truthy(city) THEN city ELSE fb.city_col,
                  Region |-> region,
                  State |-> IF Truthy(state) THEN state ELSE fb.state_col,
                  df |-> fb.df]
        ELSE [City |-> city, Region |-> region, State |-> state, df |-> df]

\* ------------------------------------------------------------------
\* Projector
\* ------------------------------------------------------------------

RECURSIVE AvailableFrom(_, _)
AvailableFrom(cols, d) ==
    IF cols = <<>> THEN d
    ELSE AvailableFrom(Tail(cols), DictSet(d, Head(cols), Head(cols)))

\* ResolveCol as it would be without the case-insensitive pass
ResolveColExactOnly(df, name) ==
    LET available == AvailableFrom(df.columns, <<>>)
    IN  IF HasKey(available, name) THEN Get(available, name) ELSE None

\* The column `name` resolves to in df: exact, else the first column whose
\* stripped lowercased name equals name's; None when there is none.
ResolveCol(df, name) ==
    LET available == AvailableFrom(df.columns, <<>>)
        ci == {i \in 1..Len(available) :
                 lower(strip(available[i].key)) = lower(strip(name))}
    IN  IF HasKey(available, name) THEN Get(available, name)
        ELSE IF ci # {} THEN available[CHOOSE i \in ci : \A k \in ci : i <= k].val
        ELSE None

\* The dict `subset` built for one frame from the names chosen_cols[i..]
RECURSIVE SubsetFrom(_, _, _, _)
SubsetFrom(df, chosen_cols, i, subset) ==
    IF i > Len(chosen_cols) THEN subset
    ELSE LET name == chosen_cols[i]
             col == ResolveCol(df, name)
             vals == IF col # None THEN Column(df, col)
                     ELSE [r \in 1..Len(df.rows) |-> <<>>]
         IN  SubsetFrom(df, chosen_cols, i + 1, DictSet(subset, name, vals))

\* pd.DataFrame(subset): one column per key; a dict with no key gives a frame
\* with no rows
FrameOfDict(subset) ==
    [columns |-> [k \in 1..Len(subset) |-> subset[k].key],
     rows |-> IF subset = <<>> THEN <<>>
              ELSE [r \in 1..Len(subset[1].val) |->
                      [k \in 1..Len(subset) |-> subset[k].val[r]]]]

RECURSIVE ConcatRows(_)
ConcatRows(frames) ==
    IF frames = <<>> THEN <<>> ELSE Head(frames).rows \o ConcatRows(Tail(frames))

extract_columns(dfs, chosen_cols) ==
    LET out_frames == [t \in 1..Len(dfs) |-> FrameOfDict(SubsetFrom(dfs[t], chosen_cols, 1, <<>>))]
    IN  IF out_frames = <<>>
        THEN [columns |-> chosen_cols, rows |-> <<>>]
        ELSE [columns |-> out_frames[1].columns, rows |-> ConcatRows(out_frames)]

\* ------------------------------------------------------------------
\* Table loader
\* ------------------------------------------------------------------

\* A row pdfplumber reports as None (line 72 turns it into [])
NoneRow == <<<<"NoneRow">>>>

\* os.path.splitext(path)[1]: from the last dot of the last path component,
\* unless only dots precede it in that component
splitext_ext(path) ==
    LET seps == {i \in 1..Len(path) : path[i] = "/"}
        sepIndex == IF seps = {} THEN 0 ELSE Max(seps)
        dots == {i \in 1..Len(path) : path[i] = "."}
        dotIndex == IF dots = {} THEN 0 ELSE Max(dots)
    IN  IF dotIndex > sepIndex /\ \E i \in (sepIndex + 1)..(dotIndex - 1) : path[i] # "."
        THEN SubSeq(path, dotIndex, Len(path))
        ELSE <<>>

\* `cell not in [None, ""]` for some cell of the row
HasContent(r) == \E c \in 1..Len(r) : r[c] # None /\ r[c] # <<>>

\* Lines 72-84 for one raw table t: <<>> when it has no rows, else <<df>>
FrameOfRaw(t) ==
    LET rows == [i \in 1..Len(t) |-> IF t[i] # NoneRow THEN t[i] ELSE <<>>]
        firstRows == {i \in 1..Len(rows) : i <= 3 /\ HasContent(rows[i])}
        header_idx == IF firstRows = {} THEN 1
                      ELSE CHOOSE i \in firstRows : \A k \in firstRows : i <= k
        header == [c \in 1..Len(rows[header_idx]) |-> clean_header(rows[header_idx][c])]
        data_rows == SubSeq(rows, header_idx + 1, Len(rows))
    IN  IF rows = <<>> THEN <<>>
        ELSE <<DataFrame(data_rows, normalize_header_len(header, data_rows))>>

RECURSIVE FramesOfRaws(_)
FramesOfRaws(tables) ==
    IF tables = <<>> THEN <<>>
    ELSE FrameOfRaw(Head(tables)) \o FramesOfRaws(Tail(tables))

Raise(error, io) == [ok |-> FALSE, error |-> error, tables |-> <<>>, io |-> io]

Return(dfs, io) == [ok |-> TRUE, error |-> "", tables |-> dfs, io |-> io]

\* The loop of lines 67-84 as a loader that swallows a page's failure would
\* run it: the frames built before the failing page are returned
RECURSIVE LoadPagesKeepPartial(_, _, _, _)
LoadPagesKeepPartial(pages, i, dfs, io) ==
    IF i > Len(pages) \/ ~pages[i].ok
    THEN IF dfs = <<>>
         THEN Raise("No tables found in PDF.", Append(io, "pdf_close"))
         ELSE Return(dfs, Append(io, "pdf_close"))
    ELSE LoadPagesKeepPartial(pages, i + 1, dfs \o FramesOfRaws(pages[i].tables),
                              Append(io, "extract_tables"))

\* The loop over pdf.pages from page i on, with the frames built so far: a
\* page whose extraction fails raises out of the loop (and out of the with
\* block, which closes the document)
RECURSIVE LoadPages(_, _, _, _)
LoadPages(pages, i, dfs, io) ==
    IF i > Len(pages)
    THEN IF dfs = <<>>
         THEN Raise("No tables found in PDF.", Append(io, "pdf_close"))
         ELSE Return(dfs, Append(io, "pdf_close"))
    ELSE IF ~pages[i].ok
    THEN Raise("page read failure", io \o <<"extract_tables", "pdf_close">>)
    ELSE LoadPages(pages, i + 1, dfs \o FramesOfRaws(pages[i].tables),
                   Append(io, "extract_tables"))

\* Lines 48-89: the readers, by extension
LoadByExt(ext, content, has_pdf) ==
    IF ext = <<".", "c", "s", "v">>
    THEN IF content.readable /\ content.frames # <<>>
         THEN Return(<<content.frames[1]>>, <<"read_csv">>)
         ELSE Raise("read failure", <<"read_csv">>)
    ELSE IF ext \in {<<".", "x", "l", "s", "x">>, <<".", "x", "l", "s">>}
    THEN IF content.readable /\ content.frames # <<>>
         THEN Return(<<content.frames[1]>>, <<"read_excel">>)
         ELSE Raise("read failure", <<"read_excel">>)
    ELSE IF ext \in {<<".", "h", "t", "m", "l">>, <<".", "h", "t", "m">>}
    THEN IF ~content.readable THEN Raise("read failure", <<"read_html">>)
         ELSE IF content.frames = <<>>
         THEN Raise("No tables found in HTML.", <<"read_html">>)
         ELSE Return(content.frames, <<"read_html">>)
    ELSE IF ext = <<".", "p", "d", "f">>
    THEN IF ~has_pdf THEN Raise("pdfplumber is not installed", <<"HAS_PDFPLUMBER">>)
         ELSE IF ~content.readable
         THEN Raise("read failure", <<"HAS_PDFPLUMBER", "pdf_open">>)
         ELSE LoadPages(content.pages, 1, <<>>, <<"HAS_PDFPLUMBER", "pdf_open">>)
    ELSE Raise("Unhandled extension", <<>>)

\* load_tables as it would be with the PDF capability checked up front
load_tables_capability_first(path, content, has_pdf) ==
    LET ext == lower(splitext_ext(path))
    IN  IF ~has_pdf THEN Raise("pdfplumber is not installed", <<"HAS_PDFPLUMBER">>)
        ELSE IF ext \notin READABLE_EXTS THEN Raise("Unsupported file type", <<>>)
        ELSE LoadByExt(ext, content, has_pdf)

\* load_tables(path) on a file of the given content, with the module's PDF
\* flag: what it returns or raises, and the reads and checks it made (io)
load_tables(path, content, has_pdf) ==
    LET ext == lower(splitext_ext(path))
    IN  IF ext \notin READABLE_EXTS THEN Raise("Unsupported file type", <<>>)
        ELSE LoadByExt(ext, content, has_pdf)

\* ------------------------------------------------------------------
\* Files
\* ------------------------------------------------------------------

MainSt == <<"1", "2", "3", " ", "M", "a", "i", "n", " ", "S", "t", ",", " ", "S", "p", "r", "i", "n", "g", "f", "i", "e", "l", "d", ",", " ", "I", "L", " ", "6", "2", "7", "0", "4">>

CityFrame == [columns |-> <<<<"C", "i", "t", "y">>>>, rows |-> <<<<<<"P", "a", "r", "i", "s">>>>>>]

AddressFrame == [columns |-> <<<<"A", "d", "d", "r", "e", "s", "s">>>>, rows |-> <<<<<<"1", " ", "R", "u", "e", ",", " ", "L", "y", "o", "n", ",", " ", "F", "R">>>>>>]

\* Two blank rows, then the header row, then one short data row
RawCityZip == <<<<None, <<>>>>, NoneRow, <<<<" ", "C", "i", "t", "y", " ">>, <<"Z", "i", "p">>>>, <<<<"L", "y", "o", "n">>>>>>

RawZip == <<<<<<"Z", "i", "p">>>>, <<<<"7", "5", "0", "0", "1">>>>>>

\* What the readers find in a file: `readable` is whether the file can be
\* opened and parsed at all, `frames` what the tabular readers return,
\* `pages` what pdfplumber yields (a page that is not ok fails to extract).
TabCity == [readable |-> TRUE, frames |-> <<CityFrame>>, pages |-> <<>>]

TabAddress == [readable |-> TRUE, frames |-> <<AddressFrame>>, pages |-> <<>>]

TabTwo == [readable |-> TRUE, frames |-> <<CityFrame, AddressFrame>>, pages |-> <<>>]

Unreadable == [readable |-> FALSE, frames |-> <<>>, pages |-> <<>>]

NoTables == [readable |-> TRUE, frames |-> <<>>,
             pages |-> <<[ok |-> TRUE, tables |-> <<<<>>>>]>>]

PdfGood == [readable |-> TRUE, frames |-> <<>>,
            pages |-> <<[ok |-> TRUE, tables |-> <<RawCityZip, <<>>>>],
                        [ok |-> TRUE, tables |-> <<RawZip>>]>>]

\* Two pages with one table each, both of the single column Zip
PdfZip == [readable |-> TRUE, frames |-> <<>>,
           pages |-> <<[ok |-> TRUE, tables |-> <<<<NoneRow>> \o RawZip>>],
                       [ok |-> TRUE, tables |-> <<<<>>, RawZip>>]>>]

PdfPartial == [readable |-> TRUE, frames |-> <<>>,
               pages |-> <<[ok |-> TRUE, tables |-> <<RawZip>>],
                           [ok |-> FALSE, tables |-> <<>>]>>]

Contents == {TabCity, TabAddress, TabTwo, Unreadable, NoTables, PdfGood, PdfZip, PdfPartial}

\* The disk of a session: path -> content
Disk ==
    [p \in {<<"a", ".", "c", "s", "v">>, <<"b", ".", "c", "s", "v">>, <<"c", ".", "d", "o", "c", "x">>, <<"d", ".", "p", "d", "f">>, <<"e", ".", "P", "D", "F">>, <<"f", ".", "h", "t", "m", "l">>} |->
        CASE p = <<"a", ".", "c", "s", "v">> -> TabCity
          [] p = <<"b", ".", "c", "s", "v">> -> TabAddress
          [] p = <<"c", ".", "d", "o", "c", "x">> -> TabCity
          [] p = <<"d", ".", "p", "d", "f">> -> PdfPartial
          [] p = <<"e", ".", "P", "D", "F">> -> PdfZip
          [] OTHER -> NoTables]

\* What the user may type into the input path field
TypedPaths == {<<>>, <<"n", "o", "f", "i", "l", "e", ".", "c", "s", "v">>}

\* What the save dialog may return ("" when cancelled)
SavePaths == {<<>>, <<"o", "u", "t">>}

\* ------------------------------------------------------------------
\* The window
\* ------------------------------------------------------------------

PREVIEW_ROWS == 50

EmptyFrame == [columns |-> <<>>, rows |-> <<>>]

\* No direct call is in progress
NoCall == [fn |-> "none", done |-> FALSE]

\* What a handler did: its message or error, the reads and checks load_tables
\* made, the mapping suggested, the names chosen, the file written
Did(op, msg) == [op |-> op, msg |-> msg, io |-> <<>>, sug |-> <<>>, chosen |-> <<>>,
                 written |-> <<>>]

\* __init__ (lines 225-322)
InitWindow ==
    /\ path_edit = <<>>
    /\ save_edit = <<>>
    /\ all_tables = <<>>
    /\ loaded_path = None
    /\ items = <<>>
    /\ cmb_city = <<>>
    /\ cmb_region = <<>>
    /\ cmb_state = <<>>
    /\ lst_selected = {}
    /\ extracted_df = <<>>
    /\ preview = EmptyFrame
    /\ last = Did("init", "")

InitSession ==
    /\ HAS_PDFPLUMBER = TRUE
    /\ InitWindow

\* The texts of a combo: "" first, then the columns (update_columns_ui.fill)
ComboItems(columns) == <<<<>>>> \o columns

\* set_combo_selection on a combo holding ComboItems(columns) whose current
\* text is `current`: the current text afterwards.  findText with
\* MatchFixedString compares whole strings without regard to case.
set_combo_selection(columns, current, value) ==
    LET texts == ComboItems(columns)
        fixed == {i \in 1..Len(texts) : lower(texts[i]) = lower(value)}
        loose == {i \in 1..Len(texts) : lower(strip(texts[i])) = lower(strip(value))}
    IN  IF ~Truthy(value) THEN texts[1]
        ELSE IF fixed # {} THEN texts[CHOOSE i \in fixed : \A k \in fixed : i <= k]
        ELSE IF loose # {} THEN texts[CHOOSE i \in loose : \A k \in loose : i <= k]
        ELSE current

\* populate_preview(df.head(PREVIEW_ROWS)): header and cell texts
populate_preview(df) ==
    [columns |-> df.columns,
     rows |-> [r \in 1..(IF Len(df.rows) < PREVIEW_ROWS THEN Len(df.rows) ELSE PREVIEW_ROWS) |->
                 [c \in 1..Len(df.columns) |->
                    IF df.rows[r][c] = None THEN <<>> ELSE df.rows[r][c]]]]

RECURSIVE AllCols(_)
AllCols(dfs) == IF dfs = <<>> THEN <<>> ELSE Head(dfs).columns \o AllCols(Tail(dfs))

\* on_browse: the dialog returns an existing file's path, or "" when cancelled
on_browse ==
    /\ \E path \in DOMAIN Disk \cup {<<>>} :
          /\ path_edit' = IF path # <<>> THEN path ELSE path_edit
          /\ last' = Did("on_browse", "")
    /\ UNCHANGED <<HAS_PDFPLUMBER, save_edit, all_tables, loaded_path, items,
                   cmb_city, cmb_region, cmb_state, lst_selected, extracted_df,
                   preview, call>>

\* The user edits the input path field
type_path ==
    /\ \E text \in TypedPaths :
          /\ path_edit' = text
          /\ last' = Did("type_path", "")
    /\ UNCHANGED <<HAS_PDFPLUMBER, save_edit, all_tables, loaded_path, items,
                   cmb_city, cmb_region, cmb_state, lst_selected, extracted_df,
                   preview, call>>

\* self.all_tables after the try block of on_load, given load_tables' outcome
TablesAfterLoad(old, res) == IF res.ok THEN res.tables ELSE old

on_load ==
    LET path == strip(path_edit)
        quiet == UNCHANGED <<all_tables, loaded_path, items, cmb_city, cmb_region,
                             cmb_state, lst_selected>>
    IN  /\ IF path = <<>>
           THEN last' = Did("on_load", "Please select a file first.") /\ quiet
           ELSE IF path \notin DOMAIN Disk
           THEN last' = Did("on_load", "File does not exist") /\ quiet
           ELSE LET res == load_tables(path, Disk[path], HAS_PDFPLUMBER)
                    unique_cols == sorted(fromkeys(AllCols(res.tables)))
                    \* line 354 hands suggest_mappings a copy of the first table:
                    \* the frame it leaves (sug.df) is dropped
                    sug == IF res.tables # <<>> THEN suggest_mappings(res.tables[1])
                           ELSE [City |-> None, Region |-> None, State |-> None,
                                 df |-> EmptyFrame]
                IN  /\ all_tables' = TablesAfterLoad(all_tables, res)
                    /\ IF ~res.ok
                       THEN /\ last' = [Did("on_load", res.error) EXCEPT !.io = res.io]
                            /\ UNCHANGED <<loaded_path, items, cmb_city, cmb_region,
                                           cmb_state, lst_selected>>
                       ELSE /\ loaded_path' = path
                            /\ items' = unique_cols
                            /\ lst_selected' = {}
                            /\ cmb_city' = set_combo_selection(unique_cols, <<>>, sug.City)
                            /\ cmb_region' = set_combo_selection(unique_cols, <<>>, sug.Region)
                            /\ cmb_state' = set_combo_selection(unique_cols, <<>>, sug.State)
                            /\ last' = [Did("on_load", "Ready") EXCEPT
                                          !.io = res.io,
                                          !.sug = IF res.tables # <<>>
                                                  THEN <<[City |-> sug.City,
                                                          Region |-> sug.Region,
                                                          State |-> sug.State]>>
                                                  ELSE <<>>]
        /\ UNCHANGED <<HAS_PDFPLUMBER, path_edit, save_edit, extracted_df, preview, call>>

\* The user picks an entry of one of the three combos
pick_combo ==
    /\ \E text \in Range(ComboItems(items)) :
          \/ cmb_city' = text /\ UNCHANGED <<cmb_region, cmb_state>>
          \/ cmb_region' = text /\ UNCHANGED <<cmb_city, cmb_state>>
          \/ cmb_state' = text /\ UNCHANGED <<cmb_city, cmb_region>>
    /\ last' = Did("pick_combo", "")
    /\ UNCHANGED <<HAS_PDFPLUMBER, path_edit, save_edit, all_tables, loaded_path,
                   items, lst_selected, extracted_df, preview, call>>

\* The user clicks an entry of lst_other (MultiSelection: a click toggles it)
toggle_other ==
    /\ \E text \in Range(items) :
          lst_selected' = IF text \in lst_selected THEN lst_selected \ {text}
                          ELSE lst_selected \cup {text}
    /\ last' = Did("toggle_other", "")
    /\ UNCHANGED <<HAS_PDFPLUMBER, path_edit, save_edit, all_tables, loaded_path,
                   items, cmb_city, cmb_region, cmb_state, extracted_df, preview, call>>

\* Lines 381-386: the selected entries of lst_other, in list order, that are
\* not yet chosen
RECURSIVE AddOthers(_, _, _)
AddOthers(chosen, i, selected) ==
    IF i > Len(items) THEN chosen
    ELSE IF items[i] \in selected /\ items[i] \notin Range(chosen)
    THEN AddOthers(Append(chosen, items[i]), i + 1, selected)
    ELSE AddOthers(chosen, i + 1, selected)

\* Lines 367-386: the list `chosen`
ChosenOfUi ==
    LET city_col == strip(cmb_city)
        region_col == strip(cmb_region)
        state_col == strip(cmb_state)
        roles == (IF city_col # <<>> THEN <<city_col>> ELSE <<>>)
                 \o (IF region_col # <<>> THEN <<region_col>> ELSE <<>>)
                 \o (IF state_col # <<>> THEN <<state_col>> ELSE <<>>)
    IN  AddOthers(roles, 1, lst_selected)

on_extract ==
    /\ IF all_tables = <<>>
       THEN /\ last' = Did("on_extract", "Please load a file first.")
            /\ UNCHANGED <<extracted_df, preview>>
       ELSE IF ChosenOfUi = <<>>
       THEN /\ last' = Did("on_extract", "Please choose at least one column to extract.")
            /\ UNCHANGED <<extracted_df, preview>>
       ELSE LET df == extract_columns(all_tables, ChosenOfUi)
            IN  /\ extracted_df' = <<df>>
                /\ preview' = populate_preview(df)
                /\ last' = [Did("on_extract", "Extracted") EXCEPT !.chosen = ChosenOfUi]
    /\ UNCHANGED <<HAS_PDFPLUMBER, path_edit, save_edit, all_tables, loaded_path,
                   items, cmb_city, cmb_region, cmb_state, lst_selected, call>>

\* str.endswith
EndsWith(s, suffix) ==
    Len(s) >= Len(suffix) /\ SubSeq(s, Len(s) - Len(suffix) + 1, Len(s)) = suffix

on_save_browse ==
    /\ \E path \in SavePaths :
          save_edit' = IF path = <<>> THEN save_edit
                       ELSE IF ~EndsWith(lower(path), <<".", "c", "s", "v">>) THEN path \o <<".", "c", "s", "v">>
                       ELSE path
    /\ last' = Did("on_save_browse", "")
    /\ UNCHANGED <<HAS_PDFPLUMBER, path_edit, all_tables, loaded_path, items,
                   cmb_city, cmb_region, cmb_state, lst_selected, extracted_df,
                   preview, call>>

\* DataFrame.empty: no rows or no columns
IsEmpty(df) == df.rows = <<>> \/ df.columns = <<>>

\* on_export; the write of line 422 may fail (the except branch)
on_export ==
    /\ IF extracted_df = <<>> \/ IsEmpty(extracted_df[1])
       THEN last' = Did("on_export", "Nothing to export. Please run 'Extract & Preview' first.")
       ELSE IF strip(save_edit) = <<>>
       THEN last' = Did("on_export", "Please choose an output CSV path.")
       ELSE \E write_ok \in BOOLEAN :
               last' = IF write_ok
                       THEN [Did("on_export", "Exported CSV") EXCEPT
                               !.written = <<[path |-> strip(save_edit),
                                              df |-> extracted_df[1]]>>]
                       ELSE Did("on_export", "Export Error")
    /\ UNCHANGED <<HAS_PDFPLUMBER, path_edit, save_edit, all_tables, loaded_path,
                   items, cmb_city, cmb_region, cmb_state, lst_selected, extracted_df,
                   preview, call>>

Init ==
    /\ HAS_PDFPLUMBER \in BOOLEAN
    /\ InitWindow
    /\ call = NoCall

Next ==
    \/ on_browse
    \/ type_path
    \/ on_load
    \/ pick_combo
    \/ toggle_other
    \/ on_extract
    \/ on_save_browse
    \/ on_export

Spec == Init /\ [][Next]_vars

\* ------------------------------------------------------------------
\* Direct calls of the core functions on bounded inputs
\* ------------------------------------------------------------------

session == <<HAS_PDFPLUMBER, path_edit, save_edit, all_tables, loaded_path,
             items, cmb_city, cmb_region, cmb_state, lst_selected, extracted_df,
             preview, last>>

\* All sequences over S of length at most n
SeqsUpTo(S, n) == UNION {[1..k -> S] : k \in 0..n}

Distinct(s) == \A i, j \in 1..Len(s) : i # j => s[i] # s[j]

\* ---- normalize_header_len ----

MaxHeaderLen == 3

MaxRowWidth == 2

MaxDataRows == 1

HeaderNames == {<<>>, <<"a">>, <<"a", "_", "2">>, <<"c", "o", "l", "_", "2">>}

DataRowSet == {[c \in 1..w |-> <<"x">>] : w \in 0..MaxRowWidth}

InitHeader ==
    /\ InitSession
    /\ call \in {[fn |-> "normalize_header_len", header |-> h, data_rows |-> d,
                  done |-> FALSE, result |-> <<>>] :
                    h \in SeqsUpTo(HeaderNames, MaxHeaderLen),
                    d \in SeqsUpTo(DataRowSet, MaxDataRows)}

CallNormalizeHeader ==
    /\ call.fn = "normalize_header_len"
    /\ ~call.done
    /\ call' = [call EXCEPT !.done = TRUE,
                            !.result = normalize_header_len(call.header, call.data_rows)]
    /\ UNCHANGED session

SpecHeader == InitHeader /\ [][CallNormalizeHeader]_vars

\* ---- find_col ----

MaxCols == 2

FindNames == {<<"C", "i", "t", "y">>, <<"C", "I", "T", "Y">>, <<" ", "c", "i", "t", "y">>, <<"C", "i", "t", "y", " ", "N", "a", "m", "e">>, <<"C", "I", "T", "Y", " ", "N", "A", "M", "E">>, <<"H", "o", "m", "e", "t", "o", "w", "n">>,
              <<"Z", "i", "p">>, <<"S", "t", "a", "t", "e">>, <<"S", "i", "t", "e", " ", "A", "d", "d", "r", "e", "s", "s">>, <<"P", "r", "o", "v", "i", "n", "c", "e">>}

CandidateLists == {CITY_SYNS, REGION_SYNS, STATE_SYNS, ADDRESS_SYNS}

InitFind ==
    /\ InitSession
    /\ call \in {[fn |-> "find_col", df |-> [columns |-> h, rows |-> <<>>],
                  candidates |-> c, done |-> FALSE, result |-> None] :
                    h \in {s \in SeqsUpTo(FindNames, MaxCols) : Distinct(s)},
                    c \in CandidateLists}

CallFindCol ==
    /\ call.fn = "find_col"
    /\ ~call.done
    /\ call' = [call EXCEPT !.done = TRUE,
                            !.result = find_col(call.df, call.candidates)]
    /\ UNCHANGED session

SpecFind == InitFind /\ [][CallFindCol]_vars

\* ---- address_fallback ----

MaxAddrLen == 3

AddrChars == {"a", "B", ",", " ", "1"}

AddrCells == SeqsUpTo(AddrChars, MaxAddrLen)
             \cup {MainSt, <<"N", "o", " ", "c", "o", "m", "m", "a", "s", " ", "h", "e", "r", "e">>, <<"S", "p", "r", "i", "n", "g", "f", "i", "e", "l", "d", ",", " ", "i", "l">>, None}

InitAddr ==
    /\ InitSession
    /\ call \in {[fn |-> "address_fallback",
                  df |-> [columns |-> <<<<"A", "d", "d", "r", "e", "s", "s">>>>, rows |-> <<<<v>>>>],
                  done |-> FALSE,
                  result |-> [city_col |-> None, state_col |-> None, region_col |-> None,
                              df |-> [columns |-> <<>>, rows |-> <<>>]]] :
                    v \in AddrCells}

CallAddressFallback ==
    /\ call.fn = "address_fallback"
    /\ ~call.done
    /\ call' = [call EXCEPT !.done = TRUE, !.result = address_fallback(call.df)]
    /\ UNCHANGED session

SpecAddr == InitAddr /\ [][CallAddressFallback]_vars

\* ---- extract_columns ----

MaxTables == 2

MaxTableRows == 2

MaxChosen == 2

ExtractHeaders == <<<<<<"C", "I", "T", "Y">>, <<"C", "i", "t", "y">>>>, <<<<" ", "c", "i", "t", "y">>, <<"Z", "i", "p">>>>, <<<<"Z", "i", "p">>, <<"T", "o", "w", "n">>>>>>

\* The frame of header h with n rows; a cell names its header, row and column
ExtractTable(h, n) ==
    [columns |-> ExtractHeaders[h],
     rows |-> [r \in 1..n |->
                 [c \in 1..Len(ExtractHeaders[h]) |->
                    IntStr(h) \o IntStr(r) \o ExtractHeaders[h][c]]]]

ExtractTables == {ExtractTable(h, n) : h \in 1..Len(ExtractHeaders), n \in 0..MaxTableRows}

ChosenNames == {<<"C", "i", "t", "y">>, <<"c", "i", "t", "y">>, <<"N", "o", "p", "e">>}

InitExtract ==
    /\ InitSession
    /\ call \in {[fn |-> "extract_columns", dfs |-> d, chosen_cols |-> c,
                  done |-> FALSE, result |-> [columns |-> <<>>, rows |-> <<>>]] :
                    d \in SeqsUpTo(ExtractTables, MaxTables),
                    c \in SeqsUpTo(ChosenNames, MaxChosen)}

CallExtractColumns ==
    /\ call.fn = "extract_columns"
    /\ ~call.done
    /\ call' = [call EXCEPT !.done = TRUE,
                            !.result = extract_columns(call.dfs, call.chosen_cols)]
    /\ UNCHANGED session

SpecExtract == InitExtract /\ [][CallExtractColumns]_vars

\* ---- load_tables ----

LoadPaths == {<<"a", ".", "c", "s", "v">>, <<"a", ".", "C", "S", "V">>, <<"a", ".", "x", "l", "s", "x">>, <<"a", ".", "x", "l", "s">>, <<"a", ".", "h", "t", "m", "l">>, <<"a", ".", "h", "t", "m">>,
              <<"a", ".", "p", "d", "f">>, <<"a", ".", "P", "d", "f">>, <<"a", ".", "d", "o", "c", "x">>, <<"a", ".", "t", "x", "t">>, <<"a">>, <<"a", ".", "c", "s", "v", ".", "b", "a", "k">>,
              <<".", "p", "d", "f">>, <<"d", ".", "c", "s", "v", "/", "a">>}

InitLoad ==
    /\ InitSession
    /\ call \in {[fn |-> "load_tables", path |-> p, content |-> c, has_pdf |-> b,
                  done |-> FALSE, result |-> Raise("", <<>>)] :
                    p \in LoadPaths, c \in Contents, b \in BOOLEAN}

CallLoadTables ==
    /\ call.fn = "load_tables"
    /\ ~call.done
    /\ call' = [call EXCEPT !.done = TRUE,
                            !.result = load_tables(call.path, call.content, call.has_pdf)]
    /\ UNCHANGED session

SpecLoad == InitLoad /\ [][CallLoadTables]_vars

\* ------------------------------------------------------------------
\* Properties
\* ------------------------------------------------------------------

RECURSIVE RowCountSum(_)
RowCountSum(dfs) ==
    IF dfs = <<>> THEN 0 ELSE Len(Head(dfs).rows) + RowCountSum(Tail(dfs))

IndexOf(s, x) == CHOOSE i \in 1..Len(s) : s[i] = x

\* Row r of table t of dfs stands at this row of the concatenation
OutRow(dfs, t, r) == RowCountSum(SubSeq(dfs, 1, t - 1)) + r

\* `cell` is what row r of df holds in the column the name n resolves to:
\* the column named n; else a column whose trimmed lowercased name equals
\* n's; else the empty string
ProjectedCell(df, r, n, cell) ==
    LET ci == {c \in 1..Len(df.columns) : lower(strip(df.columns[c])) = lower(strip(n))}
    IN  IF n \in Range(df.columns) THEN cell = df.rows[r][IndexOf(df.columns, n)]
        ELSE IF ci # {} THEN \E c \in ci : cell = df.rows[r][c]
        ELSE cell = <<>>

\* `out` is the in-order concatenation of the per-table projections on chosen
IsProjection(dfs, chosen, out) ==
    /\ Len(out.rows) = RowCountSum(dfs)
    /\ \A t \in 1..Len(dfs) : \A r \in 1..Len(dfs[t].rows) : \A j \in 1..Len(chosen) :
          /\ chosen[j] \in Range(out.columns)
          /\ ProjectedCell(dfs[t], r, chosen[j],
                           out.rows[OutRow(dfs, t, r)][IndexOf(out.columns, chosen[j])])

ExtractDone == call.fn = "extract_columns" /\ call.done

\* C1 as stated: for every list of tables and every list of pairwise distinct
\* chosen names, extract_columns returns the in-order concatenation of the
\* per-table projections (row count the sum of the tables' row counts, each
\* cell the source row's cell in the resolved column, or "").
C1_ProjectionForEveryChosen ==
    (ExtractDone /\ Distinct(call.chosen_cols))
        => IsProjection(call.dfs, call.chosen_cols, call.result)

\* C1 amended: the same for every non-empty list of pairwise distinct chosen
\* names (with no name chosen the result has no rows, whatever the tables hold).
C1_ProjectionForNonEmptyChosen ==
    (ExtractDone /\ Distinct(call.chosen_cols) /\ call.chosen_cols # <<>>)
        => IsProjection(call.dfs, call.chosen_cols, call.result)

\* C1 witness: two different tables with rows, projected on a name that
\* matches only case-insensitively and a name that no table has.
C1_Witness ==
    /\ ExtractDone
    /\ call.chosen_cols = <<<<"c", "i", "t", "y">>, <<"N", "o", "p", "e">>>>
    /\ Len(call.dfs) = 2
    /\ call.dfs[1].columns = <<<<"C", "I", "T", "Y">>, <<"C", "i", "t", "y">>>>
    /\ call.dfs[2].columns = <<<<"Z", "i", "p">>, <<"T", "o", "w", "n">>>>
    /\ Len(call.dfs[1].rows) = 2
    /\ Len(call.dfs[2].rows) = 1
    /\ Len(call.result.rows) = 3

\* C2: for every table list and every chosen list, the header of the table
\* extract_columns returns is exactly chosen, position by position, a name
\* chosen twice giving two columns.
C2_HeaderIsChosen == ExtractDone => call.result.columns = call.chosen_cols

\* C3: parsing the address "123 Main St, Springfield, IL 62704",
\* address_fallback records "Springfield" in the synthetic city column and
\* "IL" in the synthetic state column.
C3_MainStParsed ==
    (call.fn = "address_fallback" /\ call.done /\ call.df.rows[1][1] = MainSt)
        => /\ <<"_", "_", "p", "a", "r", "s", "e", "d", "_", "c", "i", "t", "y">> \in Range(call.result.df.columns)
           /\ Column(call.result.df, <<"_", "_", "p", "a", "r", "s", "e", "d", "_", "c", "i", "t", "y">>)[1] = <<"S", "p", "r", "i", "n", "g", "f", "i", "e", "l", "d">>
           /\ Column(call.result.df, <<"_", "_", "p", "a", "r", "s", "e", "d", "_", "s", "t", "a", "t", "e">>)[1] = <<"I", "L">>

\* C4: for every table with a column literally named "City",
\* find_col(table, CITY_SYNS) returns "City", whatever other columns there are.
C4_CityFound ==
    (call.fn = "find_col" /\ call.done /\ call.candidates = CITY_SYNS
        /\ <<"C", "i", "t", "y">> \in Range(call.df.columns))
        => call.result = <<"C", "i", "t", "y">>

\* C5: normalize_header_len returns a header of length
\* max(len(header), widest data row, 1) whose names are non-empty and
\* pairwise distinct.
C5_HeaderUnique ==
    (call.fn = "normalize_header_len" /\ call.done)
        => /\ Len(call.result)
                = Max({Len(call.header), 1}
                      \cup {Len(call.data_rows[r]) : r \in 1..Len(call.data_rows)})
           /\ \A i \in 1..Len(call.result) : call.result[i] # <<>>
           /\ Distinct(call.result)

\* The extensions the loader reads
SupportedExts == {<<".", "c", "s", "v">>, <<".", "x", "l", "s", "x">>, <<".", "x", "l", "s">>, <<".", "h", "t", "m", "l">>, <<".", "h", "t", "m">>, <<".", "p", "d", "f">>}

\* C6: load_tables on a path whose extension is, case-insensitively, none of
\* csv, xlsx, xls, html, htm, pdf fails with the unsupported-format error
\* before any read, reader call or PDF-capability check, and returns no
\* tables, also when the PDF capability is absent.
C6_UnsupportedBeforeIO ==
    (call.fn = "load_tables" /\ call.done
        /\ lower(splitext_ext(call.path)) \notin SupportedExts)
        => /\ ~call.result.ok
           /\ call.result.error = "Unsupported file type"
           /\ call.result.io = <<>>
           /\ call.result.tables = <<>>

\* C6 witness: a .docx path rejected while the PDF capability is absent.
C6_Witness ==
    /\ call.fn = "load_tables"
    /\ call.done
    /\ call.path = <<"a", ".", "d", "o", "c", "x">>
    /\ ~call.has_pdf
    /\ call.result.error = "Unsupported file type"

\* A load of this file must fail: unsupported format, missing PDF capability,
\* unreadable file, no tables found, or a page that fails to extract.
LoadMustFail(path, content, has_pdf) ==
    LET ext == lower(splitext_ext(path))
    IN  \/ ext \notin SupportedExts
        \/ ext = <<".", "p", "d", "f">> /\ ~has_pdf
        \/ ~content.readable
        \/ ext \in {<<".", "h", "t", "m", "l">>, <<".", "h", "t", "m">>} /\ content.frames = <<>>
        \/ ext = <<".", "p", "d", "f">> /\ \E i \in 1..Len(content.pages) : ~content.pages[i].ok
        \/ ext = <<".", "p", "d", "f">> /\ \A i \in 1..Len(content.pages) :
              \A k \in 1..Len(content.pages[i].tables) : content.pages[i].tables[k] = <<>>

\* C7: a load that fails (unsupported format, missing PDF capability, no
\* tables found, a read failure on a page after earlier tables were built)
\* is discarded whole: on_load ends in an error and the session's tables and
\* loaded path are those of before the attempt.
C7_FailedLoadKeepsTables ==
    [][(/\ last'.op = "on_load"
        /\ strip(path_edit) \in DOMAIN Disk
        /\ LoadMustFail(strip(path_edit), Disk[strip(path_edit)], HAS_PDFPLUMBER))
          => /\ all_tables' = all_tables
             /\ loaded_path' = loaded_path
             /\ last'.msg # "Ready"
             /\ last'.sug = <<>>]_vars

\* C7 witness: a PDF load fails on a later page although an earlier page
\* gave a table, in a session that holds tables of an earlier load.
C7_Witness ==
    /\ last.op = "on_load"
    /\ last.msg = "page read failure"
    /\ last.io = <<"HAS_PDFPLUMBER", "pdf_open", "extract_tables", "extract_tables", "pdf_close">>
    /\ all_tables # <<>>
    /\ loaded_path # path_edit

\* C8: when no candidate equals the trimmed lowercased form of a header name,
\* find_col returns the original name of the first header entry, in table
\* order, whose lowercased name contains a candidate, and none exactly when
\* no header entry contains one.
C8_FirstContainingHeader ==
    (call.fn = "find_col" /\ call.done
        /\ \A i \in 1..Len(call.df.columns) : \A k \in 1..Len(call.candidates) :
              call.candidates[k] # lower(strip(call.df.columns[i])))
        => LET hits == {i \in 1..Len(call.df.columns) :
                          \E k \in 1..Len(call.candidates) :
                             Contains(lower(call.df.columns[i]), call.candidates[k])}
           IN  IF hits = {} THEN call.result = None
               ELSE call.result = call.df.columns[CHOOSE i \in hits : \A k \in hits : i <= k]

\* C9: after a successful load, every column name of the suggested mapping
\* that is not none, the synthetic names of the address fallback included, is
\* a column of the first table of the session's table sequence.
C9_SuggestedAreColumns ==
    (last.op = "on_load" /\ last.sug # <<>>)
        => \A v \in {last.sug[1].City, last.sug[1].Region, last.sug[1].State} :
              v # None => v \in Range(all_tables[1].columns)

\* C10: whenever on_export writes a file, the table written is an extraction
\* (by extract_columns, for some choice of the offered names) from the table
\* sequence currently loaded.
C10_ExportIsOfLoadedTables ==
    (last.op = "on_export" /\ last.written # <<>>)
        => \E chosen \in SeqsUpTo(Range(items), Len(items)) :
              last.written[1].df = extract_columns(all_tables, chosen)

====
